---- MODULE Spec2Model ----
(***************************************************************************)
(* Model of src/app.py: a Streamlit script that synthesises a 100-row      *)
(* sales table behind st.cache_data, shows it, and derives three grouped   *)
(* aggregates from it for Plotly and Altair charts.                        *)
(*                                                                         *)
(* Representation choices:                                                 *)
(*  - text is a sequence of ASCII codes ("2023-01" is                      *)
(*    <<50,48,50,51,45,48,49>>), so formatting, parsing and lexicographic  *)
(*    key order are computed, not assumed;                                 *)
(*  - a timestamp is a day number (days since 1970-01-01), as pandas keeps *)
(*    an integer offset from the epoch; calendar fields are decoded from   *)
(*    it on demand;                                                        *)
(*  - real numbers are fixed-point integers with Scale units per 1.0;      *)
(*    a mean is kept as the exact fraction [num, den]; binary floating     *)
(*    point rounding is outside the model;                                 *)
(*  - numpy's global Mersenne Twister is abstracted to a 16-bit Lehmer     *)
(*    generator with the same interface: a seed call that overwrites the   *)
(*    state, and draws that read and advance it.                           *)
(***************************************************************************)
EXTENDS Integers, Sequences, FiniteSets, TLC

\* ------------------------------------------------------------------ bounds
\* fixed-point resolution: units per 1.0
Scale == 100
\* the generator state a fresh process starts from is one of 0..MaxEntropy
MaxEntropy == 2
\* script reruns modelled per process
MaxReruns == 2
\* process restarts (fresh sessions with an empty memo cache) modelled
MaxRestarts == 1

\* Python's None: the value of a name that is not bound to an object yet
None == <<>>

\* ------------------------------------------------------------- text helpers
RECURSIVE SeqLess(_, _)
\* lexicographic order on code sequences (Python str comparison)
SeqLess(a, b) ==
    IF b = <<>> THEN FALSE
    ELSE IF a = <<>> THEN TRUE
    ELSE IF Head(a) # Head(b) THEN Head(a) < Head(b)
    ELSE SeqLess(Tail(a), Tail(b))

\* the text of one decimal digit
DigitChar(d) == 48 + d

\* the value of a run of decimal digits
RECURSIVE ParseInt(_)
ParseInt(s) ==
    IF s = <<>> THEN 0
    ELSE 10 * ParseInt(SubSeq(s, 1, Len(s) - 1)) + (s[Len(s)] - 48)

\* n as decimal digits, zero-padded to width w (%Y is width 4, %m width 2)
RECURSIVE ZeroPad(_, _)
ZeroPad(n, w) ==
    IF w = 0 THEN <<>>
    ELSE Append(ZeroPad(n \div 10, w - 1), DigitChar(n % 10))

\* ------------------------------------------------------------ calendar
\* days since 1970-01-01 of the proleptic Gregorian date y-m-d
DaysFromCivil(y, m, d) ==
    LET yy  == IF m <= 2 THEN y - 1 ELSE y
        era == yy \div 400
        yoe == yy - era * 400
        mp  == IF m > 2 THEN m - 3 ELSE m + 9
        doy == (153 * mp + 2) \div 5 + d - 1
        doe == yoe * 365 + yoe \div 4 - yoe \div 100 + doy
    IN  era * 146097 + doe - 719468

\* the calendar fields of day number z
CivilFromDays(z) ==
    LET zz  == z + 719468
        era == zz \div 146097
        doe == zz - era * 146097
        yoe == (doe - doe \div 1460 + doe \div 36524 - doe \div 146096) \div 365
        doy == doe - (365 * yoe + yoe \div 4 - yoe \div 100)
        mp  == (5 * doy + 2) \div 153
        d   == doy - (153 * mp + 2) \div 5 + 1
        m   == IF mp < 10 THEN mp + 3 ELSE mp - 9
        y   == yoe + era * 400 + (IF m <= 2 THEN 1 ELSE 0)
    IN  [y |-> y, m |-> m, d |-> d]

\* pd.Timestamp('YYYY-MM-DD'): parse the ISO text into a day number
to_datetime(s) ==
    DaysFromCivil(ParseInt(SubSeq(s, 1, 4)), ParseInt(SubSeq(s, 6, 7)),
                  ParseInt(SubSeq(s, 9, 10)))

\* mutant: freq='D' taken as a step of two days
date_range_step2(start, periods) ==
    [i \in 1..periods |-> to_datetime(start) + 2 * (i - 1)]

\* pd.date_range(start=..., periods=..., freq='D')
date_range(start, periods) ==
    [i \in 1..periods |-> to_datetime(start) + (i - 1)]

\* mutant: '%Y-%m' without zero padding of the month
strftime_Ym_nopad(z) ==
    LET c == CivilFromDays(z)
    IN  ZeroPad(c.y, 4) \o <<45>> \o
        (IF c.m < 10 THEN ZeroPad(c.m, 1) ELSE ZeroPad(c.m, 2))

\* Series.dt.strftime('%Y-%m') on one timestamp
strftime_Ym(z) ==
    LET c == CivilFromDays(z)
    IN  ZeroPad(c.y, 4) \o <<45>> \o ZeroPad(c.m, 2)

\* ------------------------------------------------------ random generator
\* np.random.seed(x): the new state depends on x alone
SeedState(x) == (x * 7919 + 104729) % 65536

\* mutant: the seed call is lost, the generator keeps its state
np_random_seed_skipped(state, x) == state

\* np.random.seed(x) applied to the global generator
np_random_seed(state, x) == SeedState(x)

\* one step of the generator
rk_advance(state) == (75 * state + 74) % 65537

\* the 12-bit output read from a state
rk_output(state) == state % 4096

RECURSIVE MaskFor(_, _)
\* smallest 2^k - 1 that is >= max
MaskFor(max, m) == IF m >= max THEN m ELSE MaskFor(max, 2 * m + 1)

RECURSIVE rk_interval(_, _)
\* a draw in 0..max by masked rejection; [val, state]
rk_interval(max, state) ==
    LET s   == rk_advance(state)
        val == rk_output(s) % (MaskFor(max, 0) + 1)
    IN  IF val <= max THEN [val |-> val, state |-> s] ELSE rk_interval(max, s)

RECURSIVE randint_loop(_, _, _, _, _)
randint_loop(low, high, size, state, acc) ==
    IF Len(acc) = size THEN [vals |-> acc, state |-> state]
    ELSE LET r == rk_interval(high - low - 1, state)
         IN  randint_loop(low, high, size, r.state, Append(acc, low + r.val))

\* np.random.randint(low, high, size=size): integers in [low, high)
randint(low, high, size, state) == randint_loop(low, high, size, state, <<>>)

RECURSIVE uniform_loop(_, _, _, _, _)
uniform_loop(low, high, size, state, acc) ==
    IF Len(acc) = size THEN [vals |-> acc, state |-> state]
    ELSE LET s1 == rk_advance(state)
             s2 == rk_advance(s1)
             a  == rk_output(s1) \div 64
             b  == rk_output(s2) \div 64
             v  == low * Scale + ((high - low) * Scale * (a * 64 + b)) \div 4096
         IN  uniform_loop(low, high, size, s2, Append(acc, v))

\* np.random.uniform(low, high, size=size): fixed-point reals in [low, high)
uniform(low, high, size, state) == uniform_loop(low, high, size, state, <<>>)

\* np.random.choice(labels, size=size): uniform index draws into labels
choice(labels, size, state) ==
    LET r == randint(0, Len(labels), size, state)
    IN  [vals |-> [i \in 1..size |-> labels[r.vals[i] + 1]], state |-> r.state]

\* ---------------------------------------------------------------- sine
PiFx == (355 * Scale) \div 113

\* sin on [0, pi], fixed point (Bhaskara's rational approximation)
SinHalf(t) ==
    LET p == t * (PiFx - t)
    IN  (16 * p * Scale) \div (5 * PiFx * PiFx - 4 * p)

\* np.sin on a fixed-point argument >= 0
np_sin(x) ==
    LET r == x % (2 * PiFx)
    IN  IF r < PiFx THEN SinHalf(r) ELSE 0 - SinHalf(r - PiFx)

\* np.linspace(start, stop, num): num points, both ends included
linspace(start, stop, num) ==
    [i \in 1..num |-> start * Scale + ((i - 1) * (stop - start) * Scale) \div (num - 1)]

\* ------------------------------------------------------------ dataframes
\* A DataFrame is a function from column names to columns; a column is a
\* sequence with one value per row.

\* the literals of generate_data
N == 100
Seed == 42
StartDate == <<50,48,50,51,45,48,49,45,48,49>>            \* '2023-01-01'
Categories == << <<65>>, <<66>>, <<67>>, <<68>> >>       \* 'A','B','C','D'
Regions == << <<69,97,115,116>>, <<87,101,115,116>>,
              <<78,111,114,116,104>>, <<83,111,117,116,104>> >>
Columns == {"date", "sales", "customers", "avg_purchase", "category",
            "region", "revenue", "year_month"}

\* df[name] = col (adds the column, or replaces it)
assign_column(df, name, col) == (name :> col) @@ df

\* the number of rows of a frame
NRows(df) == Len(df[CHOOSE c \in DOMAIN df : TRUE])

\* mutant: revenue taken from customers instead of sales
revenue_from_customers(df) ==
    [i \in 1..NRows(df) |-> df["customers"][i] * Scale * df["avg_purchase"][i]]

\* df['sales'] * df['avg_purchase'], element by element (units of 1/Scale^2)
revenue_column(df) ==
    [i \in 1..NRows(df) |-> df["sales"][i] * df["avg_purchase"][i]]

\* df['date'].dt.strftime('%Y-%m')
year_month_column(df) ==
    [i \in 1..NRows(df) |-> strftime_Ym(df["date"][i])]

\* the body of generate_data(), entered with the global generator in
\* `state`: the frame it returns and the generator state it leaves
generate_data(state) ==
    LET s0  == np_random_seed(state, Seed)
        r1  == randint(100, 500, N, s0)
        x   == linspace(0, 10, N)
        r2  == randint(50, 200, N, r1.state)
        r3  == uniform(10, 50, N, r2.state)
        r4  == choice(Categories, N, r3.state)
        r5  == choice(Regions, N, r4.state)
        df  == [date         |-> date_range(StartDate, N),
                sales        |-> [i \in 1..N |-> r1.vals[i] * Scale + np_sin(x[i]) * 50],
                customers    |-> r2.vals,
                avg_purchase |-> r3.vals,
                category     |-> r4.vals,
                region       |-> r5.vals]
        d1  == assign_column(df, "revenue", revenue_column(df))
        d2  == assign_column(d1, "year_month", year_month_column(d1))
    IN  [df |-> d2, state |-> r5.state]

\* ------------------------------------------------------------- group-by
\* the key of row i: the values of the `by` columns, in order
KeyOf(df, by, i) == [j \in 1..Len(by) |-> df[by[j]][i]]

\* the key of every row
RowKeys(df, by) == [i \in 1..NRows(df) |-> KeyOf(df, by, i)]

RECURSIVE TupLess(_, _)
\* Python tuple order on keys: component by component
TupLess(a, b) ==
    IF a = <<>> \/ b = <<>> THEN FALSE
    ELSE IF Head(a) # Head(b) THEN SeqLess(Head(a), Head(b))
    ELSE TupLess(Tail(a), Tail(b))

\* the numbers of S in ascending order
Ascending(S) ==
    [g \in 1..Cardinality(S) |->
        CHOOSE i \in S : Cardinality({j \in S : j < i}) = g - 1]

\* mutant: every row opens a group of its own
factorize_nodedup(df, by) == RowKeys(df, by)

\* the distinct keys of the frame, in order of first appearance
factorize(df, by) ==
    LET keys  == RowKeys(df, by)
        first == Ascending({i \in 1..Len(keys) : \A j \in 1..(i - 1) : keys[j] # keys[i]})
    IN  [g \in 1..Len(first) |-> keys[first[g]]]

\* groupby's default sort=True: the group keys in ascending order (stable)
SortKeys(s) ==
    LET rank(p) == Cardinality({q \in 1..Len(s) :
                        TupLess(s[q], s[p]) \/ (s[q] = s[p] /\ q < p)}) + 1
    IN  [g \in 1..Len(s) |-> s[CHOOSE p \in 1..Len(s) : rank(p) = g]]

\* the row numbers of the group with key k, in row order
group_rows(df, by, k) ==
    Ascending({i \in 1..NRows(df) : KeyOf(df, by, i) = k})

RECURSIVE SumRows(_, _, _)
\* col[rows[1]] + ... + col[rows[n]], added in row order
SumRows(col, rows, n) ==
    IF n = 0 THEN 0 ELSE SumRows(col, rows, n - 1) + col[rows[n]]

\* mutant: the sum leaves out the group's last row
reduce_sum_droplast(col, rows) ==
    SumRows(col, rows, IF rows = <<>> THEN 0 ELSE Len(rows) - 1)

\* .sum() of one group: the column added up over the group's rows
reduce_sum(col, rows) == SumRows(col, rows, Len(rows))

\* mutant: the mean divides by the length of the whole column
reduce_mean_by_total(col, rows) ==
    [num |-> SumRows(col, rows, Len(rows)), den |-> Len(col)]

\* .mean() of one group: sum over count, kept as an exact fraction
reduce_mean(col, rows) ==
    [num |-> SumRows(col, rows, Len(rows)), den |-> Len(rows)]

\* the key columns of a grouped result after reset_index()
KeyColumns(by, keys) ==
    [c \in {by[j] : j \in 1..Len(by)} |->
        LET j == CHOOSE jj \in 1..Len(by) : by[jj] = c
        IN  [g \in 1..Len(keys) |-> keys[g][j]]]

\* df.groupby(by)[target].sum().reset_index()
groupby_sum(df, by, target) ==
    LET keys == SortKeys(factorize(df, by))
    IN  assign_column(KeyColumns(by, keys), target,
            [g \in 1..Len(keys) |-> reduce_sum(df[target], group_rows(df, by, keys[g]))])

\* df.groupby(by)[targets].mean().reset_index()
groupby_mean(df, by, targets) ==
    LET keys == SortKeys(factorize(df, by))
    IN  [c \in {targets[j] : j \in 1..Len(targets)} |->
            [g \in 1..Len(keys) |-> reduce_mean(df[c], group_rows(df, by, keys[g]))]]
        @@ KeyColumns(by, keys)

\* ---------------------------------------------------------------- state
VARIABLES
    pc,         \* the statement of app.py the script run is at
    rng,        \* the state of numpy's global generator (process-wide)
    cache,      \* st.cache_data's store (process-wide): key -> stored frame
    ns,         \* the script run's namespace: data, fig and the aggregates
    page,       \* the elements the run has sent to the page so far
    nextId,     \* identity of the next object handed out by the cache
    runs,       \* script reruns so far in this process
    restarts,   \* process restarts so far
    \* history variables, written only to state the properties
    bodyRuns,   \* executions of generate_data's body in this process
    firstRet,   \* the object the first invocation in this process returned
    generated,  \* every frame a body execution produced, in any process
    enteredWith \* the generator states those executions started from

vars == <<pc, rng, cache, ns, page, nextId, runs, restarts,
          bodyRuns, firstRet, generated, enteredWith>>

\* the statements of the script, in order
Steps == <<"title", "generate_data", "dataframe", "make_subplots",
           "trace_sales", "trace_customers", "trace_scatter", "region_sales",
           "trace_pie", "plotly_chart", "category_avg", "altair_combined",
           "heatmap_data", "altair_heatmap", "done">>

\* the statement after `s`
After(s) == Steps[(CHOOSE i \in 1..Len(Steps) : Steps[i] = s) + 1]

\* a namespace with nothing bound yet
EmptyNs == [data |-> None, fig |-> None, region_sales |-> None,
            category_avg |-> None, heatmap_data |-> None]

\* the cache key of generate_data(): it takes no arguments, so one key
CacheKey == "generate_data"

\* mutant: the lookup never finds the entry
cache_read_miss(store, key) == None

\* st.cache_data, read: the stored value, or None on a miss
cache_read(store, key) == IF key \in DOMAIN store THEN store[key] ELSE None

\* st.cache_data, write: the entry for key becomes value
cache_write(store, key, value) == (key :> value) @@ store

Init ==
    /\ pc = "title"
    /\ rng \in 0..MaxEntropy
    /\ cache = <<>>
    /\ ns = EmptyNs
    /\ page = <<>>
    /\ nextId = 0
    /\ runs = 0
    /\ restarts = 0
    /\ bodyRuns = 0
    /\ firstRet = None
    /\ generated = {}
    /\ enteredWith = {}

\* st.title(...)
Title ==
    /\ pc = "title"
    /\ page' = Append(page, "title")
    /\ pc' = After(pc)
    /\ UNCHANGED <<rng, cache, ns, nextId, runs, restarts,
                   bodyRuns, firstRet, generated, enteredWith>>

\* data = generate_data(), through @st.cache_data: a hit hands out a fresh
\* copy of the stored frame; a miss runs the body, stores the result and
\* hands it out
GenerateData ==
    /\ pc = "generate_data"
    /\ LET hit == cache_read(cache, CacheKey)
       IN  IF hit # None
           THEN /\ ns' = [ns EXCEPT !.data = [id |-> nextId, cols |-> hit]]
                /\ UNCHANGED <<rng, cache, bodyRuns, generated, enteredWith>>
           ELSE LET r == generate_data(rng)
                IN  /\ rng' = r.state
                    /\ cache' = cache_write(cache, CacheKey, r.df)
                    /\ ns' = [ns EXCEPT !.data = [id |-> nextId, cols |-> r.df]]
                    /\ bodyRuns' = bodyRuns + 1
                    /\ generated' = generated \cup {r.df}
                    /\ enteredWith' = enteredWith \cup {rng}
    /\ nextId' = nextId + 1
    /\ firstRet' = IF firstRet = None THEN ns'.data ELSE firstRet
    /\ pc' = After(pc)
    /\ UNCHANGED <<page, runs, restarts>>

\* a statement that only changes the namespace
NsStep(at, after) ==
    /\ pc = at
    /\ ns' = after
    /\ pc' = After(pc)
    /\ UNCHANGED <<rng, cache, page, nextId, runs, restarts,
                   bodyRuns, firstRet, generated, enteredWith>>

\* a statement that hands an element to the page
PageStep(at, element) ==
    /\ pc = at
    /\ page' = Append(page, element)
    /\ pc' = After(pc)
    /\ UNCHANGED <<rng, cache, ns, nextId, runs, restarts,
                   bodyRuns, firstRet, generated, enteredWith>>

\* go.Scatter / go.Pie added to the figure: the trace holds the columns
add_trace(n, trace) == [n EXCEPT !.fig.traces = Append(@, trace)]

\* st.dataframe(data, ...)
ShowDataframe ==
    PageStep("dataframe", [kind |-> "dataframe", rows |-> NRows(ns.data.cols),
                           columns |-> DOMAIN ns.data.cols])

\* fig = make_subplots(rows=2, cols=2, ...)
MakeSubplots == NsStep("make_subplots", [ns EXCEPT !.fig = [traces |-> <<>>]])

\* fig.add_trace(go.Scatter(x=data['date'], y=data['sales'], ...))
TraceSales ==
    NsStep("trace_sales", add_trace(ns,
        [type |-> "scatter", x |-> ns.data.cols["date"], y |-> ns.data.cols["sales"]]))

\* fig.add_trace(go.Scatter(x=data['date'], y=data['customers'], ...))
TraceCustomers ==
    NsStep("trace_customers", add_trace(ns,
        [type |-> "scatter", x |-> ns.data.cols["date"], y |-> ns.data.cols["customers"]]))

\* fig.add_trace(go.Scatter(x=data['customers'], y=data['sales'],
\*                          marker=dict(color=data['avg_purchase'], ...)))
TraceScatter ==
    NsStep("trace_scatter", add_trace(ns,
        [type |-> "scatter", x |-> ns.data.cols["customers"], y |-> ns.data.cols["sales"],
         color |-> ns.data.cols["avg_purchase"]]))

\* mutant: the per-region totals are also written back into data
exec_region_sales_inplace(n) ==
    [n EXCEPT !.region_sales = groupby_sum(n.data.cols, <<"region">>, "sales"),
              !.data.cols = assign_column(@, "region_total", n.data.cols["sales"])]

\* region_sales = data.groupby('region')['sales'].sum().reset_index()
exec_region_sales(n) ==
    [n EXCEPT !.region_sales = groupby_sum(n.data.cols, <<"region">>, "sales")]

\* category_avg = data.groupby('category')[[...]].mean().reset_index()
exec_category_avg(n) ==
    [n EXCEPT !.category_avg =
        groupby_mean(n.data.cols, <<"category">>, <<"sales", "customers", "avg_purchase">>)]

\* heatmap_data = data.groupby(['year_month','category'])['sales'].sum().reset_index()
exec_heatmap_data(n) ==
    [n EXCEPT !.heatmap_data =
        groupby_sum(n.data.cols, <<"year_month", "category">>, "sales")]

RegionSales == NsStep("region_sales", exec_region_sales(ns))

\* fig.add_trace(go.Pie(labels=region_sales['region'], values=region_sales['sales']))
TracePie ==
    NsStep("trace_pie", add_trace(ns,
        [type |-> "pie", labels |-> ns.region_sales["region"],
         values |-> ns.region_sales["sales"]]))

\* fig.update_layout(...); st.plotly_chart(fig, ...)
PlotlyChart == PageStep("plotly_chart", [kind |-> "plotly_chart", traces |-> Len(ns.fig.traces)])

CategoryAvg == NsStep("category_avg", exec_category_avg(ns))

\* base/bar/point charts over category_avg; st.altair_chart(combined_chart)
AltairCombined ==
    PageStep("altair_combined", [kind |-> "altair_chart", rows |-> NRows(ns.category_avg)])

HeatmapData == NsStep("heatmap_data", exec_heatmap_data(ns))

\* heatmap chart over heatmap_data; st.altair_chart(heatmap)
AltairHeatmap ==
    PageStep("altair_heatmap", [kind |-> "altair_chart", rows |-> NRows(ns.heatmap_data)])

\* Streamlit reruns the script from the top (also in the middle of a run):
\* a fresh namespace and page; the process-wide cache and generator stay
Rerun ==
    /\ pc # "title"
    /\ runs < MaxReruns
    /\ runs' = runs + 1
    /\ pc' = "title"
    /\ ns' = EmptyNs
    /\ page' = <<>>
    /\ UNCHANGED <<rng, cache, nextId, restarts,
                   bodyRuns, firstRet, generated, enteredWith>>

\* the server process is started anew: an empty cache and a generator in
\* whatever state the new process gives it
Restart ==
    /\ restarts < MaxRestarts
    /\ restarts' = restarts + 1
    /\ rng' \in 0..MaxEntropy
    /\ cache' = <<>>
    /\ pc' = "title"
    /\ ns' = EmptyNs
    /\ page' = <<>>
    /\ nextId' = 0
    /\ runs' = 0
    /\ bodyRuns' = 0
    /\ firstRet' = None
    /\ UNCHANGED <<generated, enteredWith>>

Next ==
    \/ Title
    \/ GenerateData
    \/ ShowDataframe
    \/ MakeSubplots
    \/ TraceSales
    \/ TraceCustomers
    \/ TraceScatter
    \/ RegionSales
    \/ TracePie
    \/ PlotlyChart
    \/ CategoryAvg
    \/ AltairCombined
    \/ HeatmapData
    \/ AltairHeatmap
    \/ Rerun
    \/ Restart

Spec == Init /\ [][Next]_vars

\* ----------------------------------------------------------- properties
\* Helpers of the properties. They are written independently of the
\* operators above: a calendar successor instead of day numbers, filters
\* over the rows instead of group row lists.

HasData == ns.data # None

IsLeap(y) == (y % 4 = 0 /\ y % 100 # 0) \/ y % 400 = 0

DaysInMonth(y, m) ==
    IF m = 2 THEN (IF IsLeap(y) THEN 29 ELSE 28)
    ELSE IF m \in {4, 6, 9, 11} THEN 30 ELSE 31

\* the calendar day after c
NextDay(c) ==
    IF c.d < DaysInMonth(c.y, c.m) THEN [c EXCEPT !.d = @ + 1]
    ELSE IF c.m < 12 THEN [y |-> c.y, m |-> c.m + 1, d |-> 1]
    ELSE [y |-> c.y + 1, m |-> 1, d |-> 1]

IsDigits(s) == \A j \in 1..Len(s) : s[j] \in 48..57

RECURSIVE TotalWhere(_, _, _, _)
\* the sum of col over the rows 1..n whose key column holds k
TotalWhere(col, keycol, k, n) ==
    IF n = 0 THEN 0
    ELSE TotalWhere(col, keycol, k, n - 1) + (IF keycol[n] = k THEN col[n] ELSE 0)

RECURSIVE Total(_, _)
\* the sum of col over the rows 1..n
Total(col, n) == IF n = 0 THEN 0 ELSE Total(col, n - 1) + col[n]

\* the number of rows whose key column holds k
CountWhere(keycol, k) == Cardinality({i \in 1..Len(keycol) : keycol[i] = k})

Values(col) == {col[i] : i \in 1..Len(col)}

\* C1 as stated: the body of generate_data runs at most once in a process,
\* and every invocation returns the very object the first one returned.
C1_SameObject ==
    /\ bodyRuns <= 1
    /\ HasData => ns.data = firstRet

\* C1 as amended: the body of generate_data runs at most once in a process,
\* and every invocation returns a frame equal in every row and column to the
\* one the first invocation returned (a copy of it, not the same object).
C1_Memoized ==
    /\ bodyRuns <= 1
    /\ HasData => ns.data.cols = firstRet.cols

\* a later invocation has returned, after a rerun
C1_Witness == HasData /\ runs >= 1 /\ ns.data.id > firstRet.id

\* C2: every execution of the body, in any process and from any prior
\* state of the global generator, produces the same rows in every column.
C2_Deterministic == Cardinality(generated) <= 1

\* the body has run in two processes that entered it with different
\* generator states
C2_Witness == Cardinality(enteredWith) >= 2 /\ restarts >= 1 /\ bodyRuns = 1

\* C3: the date column holds N = 100 values, starts at 2023-01-01, and each
\* row's date is the calendar day after the previous row's.
C3_ConsecutiveDays ==
    HasData =>
        LET date == ns.data.cols["date"]
        IN  /\ Len(date) = N
            /\ CivilFromDays(date[1]) = [y |-> 2023, m |-> 1, d |-> 1]
            /\ \A i \in 1..(Len(date) - 1) :
                   CivilFromDays(date[i + 1]) = NextDay(CivilFromDays(date[i]))

\* the frame has been returned and its dates run over a month boundary
C3_Witness ==
    /\ HasData
    /\ \E i \in 1..(N - 1) :
          CivilFromDays(ns.data.cols["date"][i]).m # CivilFromDays(ns.data.cols["date"][i + 1]).m

\* C4: in every row revenue = sales * avg_purchase, where sales is the
\* integer base draw in [100, 500) plus 50 times the sine term of the row.
C4_Revenue ==
    HasData =>
        LET df == ns.data.cols
            x  == linspace(0, 10, N)
        IN  \A i \in 1..N :
               /\ df["revenue"][i] = df["sales"][i] * df["avg_purchase"][i]
               /\ LET base == df["sales"][i] - np_sin(x[i]) * 50
                  IN  base % Scale = 0 /\ base \div Scale \in 100..499

\* the frame is in use by the script and some row has a perturbed sales value
C4_Witness ==
    /\ HasData
    /\ pc = "trace_sales"
    /\ \E i \in 1..N : ns.data.cols["sales"][i] % Scale # 0

\* C5: in every row year_month is the row's date as YYYY-MM: four digits
\* that read the year, a hyphen, two digits that read the month; the row
\* dated 2023-01-15 holds "2023-01"; the column has a value for every row.
C5_YearMonth ==
    HasData =>
        LET df == ns.data.cols
        IN  /\ "year_month" \in DOMAIN df
            /\ Len(df["year_month"]) = Len(df["date"])
            /\ \A i \in 1..Len(df["date"]) :
                  LET s == df["year_month"][i]
                      c == CivilFromDays(df["date"][i])
                  IN  /\ Len(s) = 7
                      /\ s[5] = 45
                      /\ IsDigits(SubSeq(s, 1, 4)) /\ IsDigits(SubSeq(s, 6, 7))
                      /\ ParseInt(SubSeq(s, 1, 4)) = c.y
                      /\ ParseInt(SubSeq(s, 6, 7)) = c.m
                      /\ (c = [y |-> 2023, m |-> 1, d |-> 15]
                            => s = <<50, 48, 50, 51, 45, 48, 49>>)

\* the frame holds a row dated 2023-01-15
C5_Witness ==
    /\ HasData
    /\ \E i \in 1..N :
          CivilFromDays(ns.data.cols["date"][i]) = [y |-> 2023, m |-> 1, d |-> 15]

\* C6: region_sales has one row per distinct region of the frame, each
\* holding the sum of sales of the rows of that region, and the per-region
\* sums add up to the sum of sales over the whole frame.
C6_RegionSum ==
    ns.region_sales # None =>
        LET df == ns.data.cols
            rs == ns.region_sales
        IN  /\ Values(rs["region"]) = Values(df["region"])
            /\ Len(rs["region"]) = Cardinality(Values(df["region"]))
            /\ Len(rs["sales"]) = Len(rs["region"])
            /\ \A g \in 1..Len(rs["region"]) :
                  rs["sales"][g] = TotalWhere(df["sales"], df["region"], rs["region"][g], N)
            /\ Total(rs["sales"], Len(rs["sales"])) = Total(df["sales"], N)

\* region_sales has been computed and has more than one group
C6_Witness == ns.region_sales # None /\ Len(ns.region_sales["region"]) >= 2

\* C7: category_avg has one row per category that occurs in the frame
\* (so "A" has a row when some row has category "A"), every group has at
\* least one row, and each reported mean of sales, customers and
\* avg_purchase is the sum over the rows of the category divided by their
\* number.
C7_CategoryMean ==
    ns.category_avg # None =>
        LET df == ns.data.cols
            ca == ns.category_avg
        IN  /\ Values(ca["category"]) = Values(df["category"])
            /\ Len(ca["category"]) = Cardinality(Values(df["category"]))
            /\ \A g \in 1..Len(ca["category"]) :
                 \A c \in {"sales", "customers", "avg_purchase"} :
                    LET k   == ca["category"][g]
                        cnt == CountWhere(df["category"], k)
                        m   == ca[c][g]
                    IN  /\ cnt > 0
                        /\ m.den > 0
                        /\ m.num * cnt = TotalWhere(df[c], df["category"], k, N) * m.den

\* category_avg has been computed and reports category "A"
C7_Witness ==
    /\ ns.category_avg # None
    /\ \E g \in 1..Len(ns.category_avg["category"]) : ns.category_avg["category"][g] = <<65>>

\* C8: heatmap_data has exactly one row per (year_month, category) pair
\* that occurs in some row of the frame; so its row count is at most
\* (distinct year_months) x (distinct categories), and reaches it only if
\* every combination occurs in some row.
C8_HeatmapRows ==
    ns.heatmap_data # None =>
        LET df    == ns.data.cols
            hm    == ns.heatmap_data
            pairs == {<<df["year_month"][i], df["category"][i]>> : i \in 1..N}
            yms   == Values(df["year_month"])
            cats  == Values(df["category"])
            rows  == Len(hm["sales"])
        IN  /\ Len(hm["year_month"]) = rows /\ Len(hm["category"]) = rows
            /\ {<<hm["year_month"][g], hm["category"][g]>> : g \in 1..rows} = pairs
            /\ rows = Cardinality(pairs)
            /\ rows <= Cardinality(yms) * Cardinality(cats)
            /\ rows = Cardinality(yms) * Cardinality(cats)
                  => \A y \in yms : \A c \in cats :
                        \E i \in 1..N : df["year_month"][i] = y /\ df["category"][i] = c

\* heatmap_data has been computed over several months and categories
C8_Witness ==
    /\ ns.heatmap_data # None
    /\ Cardinality(Values(ns.heatmap_data["year_month"])) >= 2
    /\ Cardinality(Values(ns.heatmap_data["category"])) >= 2

\* C10: the frame bound to `data` always has N = 100 rows in each of exactly
\* the eight columns and equals the memoized frame; no statement of the
\* script after generate_data() changes it; and the memoized frame is not
\* changed for as long as the process lives.
C10_Immutable ==
    /\ [](HasData =>
            /\ DOMAIN ns.data.cols = Columns
            /\ \A c \in Columns : Len(ns.data.cols[c]) = N
            /\ ns.data.cols = cache_read(cache, CacheKey))
    /\ [][HasData /\ pc' # "title" => ns'.data = ns.data]_vars
    /\ [][cache # <<>> /\ restarts' = restarts => cache' = cache]_vars

\* a rerun has gone through all three aggregations
C10_Witness ==
    /\ pc = "done"
    /\ runs >= 1
    /\ HasData
    /\ ns.region_sales # None /\ ns.category_avg # None /\ ns.heatmap_data # None

====
